---- MODULE Spec2Model ----
(***************************************************************************)
(* Booking API of src/server.js (lines 59-431: the Express application     *)
(* with the agendamentos table of src/database.sql).                       *)
(*                                                                         *)
(* The table is a set of rows.  Every handler is cut at its awaits: one    *)
(* action per SQL statement, the synchronous code before a statement       *)
(* belonging to the action of that statement.  Instants are integers, two  *)
(* per calendar day (2*dia is 00:00:00.000 UTC of day dia, 2*dia+1 any     *)
(* later instant of that day); day 0 is Thursday 1970-01-01.  The server   *)
(* and the database run in UTC.                                            *)
(***************************************************************************)
EXTENDS Integers, FiniteSets, Sequences, TLC

VARIABLES
    agendamentos,   \* the rows of table agendamentos
    agora,          \* the current instant (new Date(), NOW())
    pc,             \* pc[w]: where request handler w stands
    req,            \* req[w]: the request handler w is serving
    resp,           \* resp[w]: the answer handler w has sent
    corpo,          \* corpo[w]: the JSON body of that answer, on the query routes
    calc,           \* a call of adicionarDiasUteis: its arguments and its result
    emprestados     \* the clients of the pool that are checked out

vars == <<agendamentos, agora, pc, req, resp, corpo, calc, emprestados>>

----------------------------------------------------------------------------
(* Program constants *)

LimiteVagas == 2
DiasHorizonte == 30
DiasUteisAntecedencia == 2

(* Bounds of the model *)

MaxDia == 2
MaxDiaPrazo == 4
MaxDiaInicial == 13
MaxDias == 4
MaxClientes == 2

----------------------------------------------------------------------------
(* Instants and JavaScript Date values *)

Instante(dia, tod) == 2 * dia + tod
DiaDe(t) == t \div 2

\* A Date object: valido = FALSE is Invalid Date (time value NaN).
DateValida(t) == [valido |-> TRUE, t |-> t]
DateInvalida == [valido |-> FALSE, t |-> 0]

\* Date.prototype.getUTCDay on a time value: 0 = Sunday ... 6 = Saturday.
getUTCDay(t) == (DiaDe(t) + 4) % 7

\* The text of a date field of a request body:
\*   iso       "YYYY-MM-DD" of day dia
\*   datahora  a timestamp of day dia, such as "YYYY-MM-DDT00:00:00.000Z":
\*             with "T00:00:00Z" appended it is no date for JavaScript, and
\*             PostgreSQL reads it as the DATE dia
\*   lixo      a text neither JavaScript nor PostgreSQL reads as a date
\*   vazio     the field is missing or empty (falsy)
DataIso(dia) == [fmt |-> "iso", dia |-> dia]
DataHora(dia) == [fmt |-> "datahora", dia |-> dia]
DataLixo == [fmt |-> "lixo", dia |-> 0]
DataVazia == [fmt |-> "vazio", dia |-> 0]

\* new Date(data + "T00:00:00Z")
dataSelecionada(data) ==
    IF data.fmt = "iso" THEN DateValida(Instante(data.dia, 0)) ELSE DateInvalida

\* PostgreSQL's reading of the same text as the DATE parameter of a statement.
DataPGOk(data) == data.fmt \in {"iso", "datahora"}
DataPG(data) == data.dia

\* a < b and a > b on Dates: false when either is Invalid Date.
DateMenor(a, b) == a.valido /\ b.valido /\ a.t < b.t
DateMaior(a, b) == a.valido /\ b.valido /\ a.t > b.t

\* Calendar days are counted: weekend days are not skipped.
adicionarDiasCorridos(dataInicial, dias) ==
    IF dias <= 0 THEN dataInicial ELSE dataInicial + Instante(dias, 0)

\* Only Sunday is skipped: Saturday counts as a business day.
RECURSIVE adicionarDiasUteisComSabado(_, _)
adicionarDiasUteisComSabado(dataInicial, dias) ==
    IF dias <= 0
    THEN dataInicial
    ELSE LET data == dataInicial + Instante(1, 0)
         IN  IF getUTCDay(data) # 0
             THEN adicionarDiasUteisComSabado(data, dias - 1)
             ELSE adicionarDiasUteisComSabado(data, dias)

\* data.setDate(data.getDate() + 1) moves the instant one day on and keeps its
\* time of day; the loop counts the days that are not Saturday or Sunday.
RECURSIVE adicionarDiasUteis(_, _)
adicionarDiasUteis(dataInicial, dias) ==
    IF dias <= 0
    THEN dataInicial
    ELSE LET data == dataInicial + Instante(1, 0)
         IN  IF getUTCDay(data) # 0 /\ getUTCDay(data) # 6
             THEN adicionarDiasUteis(data, dias - 1)
             ELSE adicionarDiasUteis(data, dias)

\* dataMaxima of the create handler: now, moved 30 days on.
dataMaxima(t) == DateValida(t + Instante(DiasHorizonte, 0))
dataMinima(t) == DateValida(adicionarDiasUteis(t, DiasUteisAntecedencia))

ForaDoHorizonte(data, t) == DateMaior(dataSelecionada(data), dataMaxima(t))
FimDeSemana(data) ==
    LET d == dataSelecionada(data)
    IN  d.valido /\ (getUTCDay(d.t) = 0 \/ getUTCDay(d.t) = 6)
SemAntecedencia(data, t) == DateMenor(dataSelecionada(data), dataMinima(t))

----------------------------------------------------------------------------
(* The table: statements on agendamentos *)

\* The row an INSERT of the create handler makes; status,
\* quantidade_reagendamentos and criado_em (CURRENT_TIMESTAMP) take the
\* column defaults.
NovoAgendamento(nota, localidade, dia, periodo) ==
    [numero_nota |-> nota, localidade |-> localidade,
     data_original |-> dia, periodo_original |-> periodo,
     data_atual |-> dia, periodo_atual |-> periodo,
     status |-> "agendado", quantidade_reagendamentos |-> 0,
     criado_em |-> agora]

\* SELECT * FROM agendamentos WHERE numero_nota = $1
PorNota(tabela, nota) == {a \in tabela : a.numero_nota = nota}

\* SELECT 1 FROM agendamentos WHERE numero_nota = $1: rowCount > 0
notaExistente(tabela, nota) == PorNota(tabela, nota) # {}

\* SELECT COUNT(*) ... WHERE data_atual = $1 AND periodo_atual = $2 AND localidade = $3
vagas(tabela, dia, periodo, localidade) ==
    Cardinality({a \in tabela : /\ a.data_atual = dia
                                /\ a.periodo_atual = periodo
                                /\ a.localidade = localidade})

\* Off by one: a third booking passes.
VagasEsgotadasAcimaDoLimite(count) == count > LimiteVagas

\* vagas.rows[0].count >= 2
VagasEsgotadas(count) == count >= LimiteVagas

\* The column is declared without UNIQUE: no INSERT fails.
ViolaUniqueSemRestricao(tabela, nota) == FALSE

\* numero_nota VARCHAR(255) NOT NULL UNIQUE: an INSERT of a present note fails.
ViolaUnique(tabela, nota) == \E a \in tabela : a.numero_nota = nota

\* The count is forgotten: only a completed booking is turned down.
NaoPodeReagendarSoConcluido(ag) == ag.status = "concluido"

\* The status is forgotten: only a rescheduled booking is turned down.
NaoPodeReagendarSoContagem(ag) == ag.quantidade_reagendamentos > 0

\* ag.quantidade_reagendamentos > 0 || ag.status === 'concluido'
NaoPodeReagendar(ag) ==
    ag.quantidade_reagendamentos > 0 \/ ag.status = "concluido"

\* The SET list also overwrites the original date and period.
UpdateReagendarTudo(tabela, nota, dia, periodo) ==
    {IF a.numero_nota = nota
     THEN [a EXCEPT !.data_atual = dia, !.periodo_atual = periodo,
                    !.data_original = dia, !.periodo_original = periodo,
                    !.status = "reagendado", !.quantidade_reagendamentos = 1]
     ELSE a : a \in tabela}

\* The SET list counts the reschedule up instead of setting the count to 1.
UpdateReagendarIncrementa(tabela, nota, dia, periodo) ==
    {IF a.numero_nota = nota
     THEN [a EXCEPT !.data_atual = dia, !.periodo_atual = periodo,
                    !.status = "reagendado",
                    !.quantidade_reagendamentos = a.quantidade_reagendamentos + 1]
     ELSE a : a \in tabela}

\* UPDATE agendamentos SET data_atual, periodo_atual, status = 'reagendado',
\* quantidade_reagendamentos = 1 ... WHERE numero_nota = $3
UpdateReagendar(tabela, nota, dia, periodo) ==
    {IF a.numero_nota = nota
     THEN [a EXCEPT !.data_atual = dia, !.periodo_atual = periodo,
                    !.status = "reagendado", !.quantidade_reagendamentos = 1]
     ELSE a : a \in tabela}

\* A completion that also stamps the row, as a column refreshed on every
\* update would be.
UpdateConcluirCarimba(tabela, nota) ==
    {IF a.numero_nota = nota
     THEN [a EXCEPT !.status = "concluido", !.criado_em = agora] ELSE a
     : a \in tabela}

\* UPDATE agendamentos SET status = 'concluido' WHERE numero_nota = $1
UpdateConcluir(tabela, nota) ==
    {IF a.numero_nota = nota THEN [a EXCEPT !.status = "concluido"] ELSE a
     : a \in tabela}

\* DELETE FROM agendamentos WHERE numero_nota = $1
DeleteNota(tabela, nota) == {a \in tabela : a.numero_nota # nota}

\* DELETE FROM agendamentos WHERE numero_nota = ANY($1::text[])
DeleteNotas(tabela, notas) == {a \in tabela : a.numero_nota \notin notas}

----------------------------------------------------------------------------
(* Requests and the synchronous validation of the handlers *)

Workers == {1, 2}

SemData == [fmt |-> "", dia |-> 0]
SemReq == [op |-> "", nota |-> "", localidade |-> "", data |-> SemData,
           periodo |-> "", notas |-> {}, vagas |-> 0]

Pedido(op, nota, localidade, data, periodo, notas) ==
    [op |-> op, nota |-> nota, localidade |-> localidade, data |-> data,
     periodo |-> periodo, notas |-> notas, vagas |-> 0]

\* No body yet, and no call of adicionarDiasUteis under way.
SemCorpo == [rota |-> ""]
SemCalculo == [dataInicial |-> 0, dias |-> 0, feito |-> FALSE, data |-> 0]

Falta(campo) == campo = ""
DataFalta(data) == data.fmt = "vazio"

\* The weekend test is moved in front of the horizon test.
ValidarCriacaoFimDeSemanaPrimeiro(r, t) ==
    IF Falta(r.nota) \/ DataFalta(r.data) \/ Falta(r.periodo) \/ Falta(r.localidade)
    THEN "400_campos"
    ELSE IF FimDeSemana(r.data) THEN "400_dia_util"
    ELSE IF ForaDoHorizonte(r.data, t) THEN "400_horizonte"
    ELSE IF SemAntecedencia(r.data, t) THEN "400_antecedencia"
    ELSE "ok"

\* POST /api/agendamentos up to pool.connect: the answer it returns, or "ok".
ValidarCriacao(r, t) ==
    IF Falta(r.nota) \/ DataFalta(r.data) \/ Falta(r.periodo) \/ Falta(r.localidade)
    THEN "400_campos"
    ELSE IF ForaDoHorizonte(r.data, t) THEN "400_horizonte"
    ELSE IF FimDeSemana(r.data) THEN "400_dia_util"
    ELSE IF SemAntecedencia(r.data, t) THEN "400_antecedencia"
    ELSE "ok"

\* POST /api/agendamentos/:nota/reagendar up to pool.connect.
ValidarReagendamento(r, t) ==
    IF DataFalta(r.data) \/ Falta(r.periodo) THEN "400_campos"
    ELSE IF FimDeSemana(r.data) THEN "400_dia_util"
    ELSE IF SemAntecedencia(r.data, t) THEN "400_antecedencia"
    ELSE "ok"

\* The pool: pool.connect() and pool.query() get a client only while the pool
\* has one left (MaxClientes stands for the size of the pool) and wait
\* otherwise; connect keeps the client checked out until release().
PoolLivre == emprestados < MaxClientes
connect == emprestados' = emprestados + 1
release == emprestados' = emprestados - 1

Responder(w, codigo) ==
    /\ pc' = [pc EXCEPT ![w] = "done"]
    /\ resp' = [resp EXCEPT ![w] = codigo]

Seguir(w, passo) ==
    /\ pc' = [pc EXCEPT ![w] = passo]
    /\ UNCHANGED resp

----------------------------------------------------------------------------
(* POST /api/agendamentos *)

\* Validation, pool.connect and the SELECT of the note number.
CriarNota(w, nota, localidade, data, periodo) ==
    LET r == Pedido("criar", nota, localidade, data, periodo, {})
        v == ValidarCriacao(r, agora)
    IN  /\ pc[w] = "idle"
        /\ req' = [req EXCEPT ![w] = r]
        /\ IF v # "ok"
           THEN /\ Responder(w, v)
                /\ UNCHANGED emprestados
           ELSE /\ PoolLivre
                /\ IF notaExistente(agendamentos, nota)
                   THEN /\ Responder(w, "409_nota")
                        /\ UNCHANGED emprestados
                   ELSE /\ Seguir(w, "criar_vagas")
                        /\ connect
        /\ UNCHANGED <<agendamentos, agora, corpo, calc>>

\* The row is inserted before the slot is counted, and stays when the request
\* is turned down.
CriarVagasInsereAntes(w) ==
    /\ pc[w] = "criar_vagas"
    /\ DataPGOk(req[w].data)
    /\ LET count == vagas(agendamentos, DataPG(req[w].data),
                          req[w].periodo, req[w].localidade)
       IN  /\ req' = [req EXCEPT ![w].vagas = count]
           /\ agendamentos' = agendamentos \cup
                  {NovoAgendamento(req[w].nota, req[w].localidade,
                                   DataPG(req[w].data), req[w].periodo)}
           /\ Responder(w, IF VagasEsgotadas(count) THEN "409_vagas" ELSE "201")
    /\ release
    /\ UNCHANGED <<agora, corpo, calc>>

\* The SELECT COUNT(*) of the slot, its result kept in vagas; a text PostgreSQL
\* cannot read as a date makes the query throw, and the catch block answers 500
\* (it has no client.release()).
CriarVagas(w) ==
    /\ pc[w] = "criar_vagas"
    /\ IF ~DataPGOk(req[w].data)
       THEN /\ Responder(w, "500")
            /\ UNCHANGED <<req, emprestados>>
       ELSE LET count == vagas(agendamentos, DataPG(req[w].data),
                               req[w].periodo, req[w].localidade)
            IN  /\ req' = [req EXCEPT ![w].vagas = count]
                /\ IF VagasEsgotadas(count)
                   THEN /\ Responder(w, "409_vagas")
                        /\ release
                   ELSE /\ Seguir(w, "criar_insert")
                        /\ UNCHANGED emprestados
    /\ UNCHANGED <<agendamentos, agora, corpo, calc>>

\* The INSERT.
CriarInsert(w) ==
    /\ pc[w] = "criar_insert"
    /\ IF ViolaUnique(agendamentos, req[w].nota)
       THEN /\ Responder(w, "500")
            /\ UNCHANGED <<agendamentos, emprestados>>
       ELSE /\ agendamentos' = agendamentos \cup
                   {NovoAgendamento(req[w].nota, req[w].localidade,
                                    DataPG(req[w].data), req[w].periodo)}
            /\ release
            /\ Responder(w, "201")
    /\ UNCHANGED <<agora, req, corpo, calc>>

----------------------------------------------------------------------------
(* POST /api/agendamentos/:nota/reagendar *)

\* Validation, pool.connect and the SELECT of the booking; the handler keeps
\* ag.localidade of the row it read for the slot query.
ReagendarNota(w, nota, data, periodo) ==
    LET r == Pedido("reagendar", nota, "", data, periodo, {})
        v == ValidarReagendamento(r, agora)
        rows == PorNota(agendamentos, nota)
    IN  /\ pc[w] = "idle"
        /\ IF v # "ok"
           THEN /\ req' = [req EXCEPT ![w] = r]
                /\ Responder(w, v)
                /\ UNCHANGED emprestados
           ELSE /\ PoolLivre
                /\ IF rows = {}
                   THEN /\ req' = [req EXCEPT ![w] = r]
                        /\ Responder(w, "404")
                        /\ UNCHANGED emprestados
                   ELSE \E ag \in rows :
                          /\ req' = [req EXCEPT ![w] =
                                        [r EXCEPT !.localidade = ag.localidade]]
                          /\ IF NaoPodeReagendar(ag)
                             THEN /\ Responder(w, "403")
                                  /\ UNCHANGED emprestados
                             ELSE /\ Seguir(w, "reagendar_vagas")
                                  /\ connect
        /\ UNCHANGED <<agendamentos, agora, corpo, calc>>

ReagendarVagas(w) ==
    /\ pc[w] = "reagendar_vagas"
    /\ IF ~DataPGOk(req[w].data)
       THEN /\ Responder(w, "500")
            /\ UNCHANGED <<req, emprestados>>
       ELSE LET count == vagas(agendamentos, DataPG(req[w].data),
                               req[w].periodo, req[w].localidade)
            IN  /\ req' = [req EXCEPT ![w].vagas = count]
                /\ IF VagasEsgotadas(count)
                   THEN /\ Responder(w, "409_vagas")
                        /\ release
                   ELSE /\ Seguir(w, "reagendar_update")
                        /\ UNCHANGED emprestados
    /\ UNCHANGED <<agendamentos, agora, corpo, calc>>

\* The UPDATE; the handler answers 200 whatever its rowCount.
ReagendarUpdate(w) ==
    /\ pc[w] = "reagendar_update"
    /\ agendamentos' = UpdateReagendar(agendamentos, req[w].nota,
                                       DataPG(req[w].data), req[w].periodo)
    /\ release
    /\ Responder(w, "200")
    /\ UNCHANGED <<agora, req, corpo, calc>>

----------------------------------------------------------------------------
(* GET /api/agendamentos/:nota *)

\* new Date(agendamento.data_atual): midnight of the stored day.
dataAgendamento(ag) == DateValida(Instante(ag.data_atual, 0))

\* The first two tests of the chain change places.
motivoBloqueioLimitePrimeiro(ag, t) ==
    IF ag.quantidade_reagendamentos > 0 THEN "limite"
    ELSE IF ag.status = "concluido" THEN "concluido"
    ELSE IF DateMenor(dataAgendamento(ag), dataMinima(t)) THEN "prazo"
    ELSE ""

\* The if / else if chain that sets motivoBloqueio; "" is no reason.
motivoBloqueio(ag, t) ==
    IF ag.status = "concluido" THEN "concluido"
    ELSE IF ag.quantidade_reagendamentos > 0 THEN "limite"
    ELSE IF DateMenor(dataAgendamento(ag), dataMinima(t)) THEN "prazo"
    ELSE ""

\* podeReagendar && !motivoBloqueio
podeReagendar(ag, t) ==
    /\ ag.quantidade_reagendamentos = 0 /\ ag.status # "concluido"
    /\ motivoBloqueio(ag, t) = ""

Consultar(w, nota) ==
    LET rows == PorNota(agendamentos, nota)
    IN  /\ pc[w] = "idle"
        /\ PoolLivre
        /\ req' = [req EXCEPT ![w] = Pedido("consultar", nota, "", SemData, "", {})]
        /\ IF rows = {}
           THEN /\ Responder(w, "404")
                /\ UNCHANGED corpo
           ELSE \E ag \in rows :
                  /\ Responder(w, "200")
                  /\ corpo' = [corpo EXCEPT ![w] =
                        [rota |-> "consulta", agendamento |-> ag,
                         podeReagendar |-> podeReagendar(ag, agora),
                         motivoBloqueio |-> motivoBloqueio(ag, agora)]]
        /\ UNCHANGED <<agendamentos, agora, calc, emprestados>>

----------------------------------------------------------------------------
(* GET /api/disponibilidade/:localidade (src/server.js lines 13-53) *)

\* The rows of the SELECT ... GROUP BY data_atual, periodo_atual: one per date
\* and period, with its count; hoje is CURRENT_DATE.
linhasDisponibilidade(tabela, localidade, hoje) ==
    LET sel == {a \in tabela : /\ a.localidade = localidade
                               /\ a.status # "concluido"
                               /\ a.data_atual >= hoje}
    IN  {[data_atual |-> a.data_atual, periodo_atual |-> a.periodo_atual,
          count |-> Cardinality({b \in sel : /\ b.data_atual = a.data_atual
                                             /\ b.periodo_atual = a.periodo_atual})]
         : a \in sel}

\* turnosIndisponiveis: for each date with a row of count >= 2, the periods of
\* those rows.
turnosIndisponiveis(rows) ==
    LET cheias == {r \in rows : r.count >= 2}
    IN  [d \in {r.data_atual : r \in cheias} |->
            {r.periodo_atual : r \in {c \in cheias : c.data_atual = d}}]

\* diasLotados: the dates whose list has length >= 2.
diasLotados(turnos) == {d \in DOMAIN turnos : Cardinality(turnos[d]) >= 2}

Disponibilidade(w, localidade) ==
    LET turnos == turnosIndisponiveis(
                      linhasDisponibilidade(agendamentos, localidade, DiaDe(agora)))
    IN  /\ pc[w] = "idle"
        /\ PoolLivre
        /\ req' = [req EXCEPT ![w] =
                      Pedido("disponibilidade", "", localidade, SemData, "", {})]
        /\ Responder(w, "200")
        /\ corpo' = [corpo EXCEPT ![w] =
                        [rota |-> "disponibilidade",
                         diasLotados |-> diasLotados(turnos),
                         turnosIndisponiveis |-> turnos]]
        /\ UNCHANGED <<agendamentos, agora, calc, emprestados>>

----------------------------------------------------------------------------
(* Back office: one statement each *)

Concluir(w, nota) ==
    /\ pc[w] = "idle"
    /\ PoolLivre
    /\ req' = [req EXCEPT ![w] = Pedido("concluir", nota, "", SemData, "", {})]
    /\ agendamentos' = UpdateConcluir(agendamentos, nota)
    /\ Responder(w, IF PorNota(agendamentos, nota) = {} THEN "404" ELSE "200")
    /\ UNCHANGED <<agora, corpo, calc, emprestados>>

Excluir(w, nota) ==
    /\ pc[w] = "idle"
    /\ PoolLivre
    /\ req' = [req EXCEPT ![w] = Pedido("excluir", nota, "", SemData, "", {})]
    /\ agendamentos' = DeleteNota(agendamentos, nota)
    /\ Responder(w, IF PorNota(agendamentos, nota) = {} THEN "404" ELSE "200")
    /\ UNCHANGED <<agora, corpo, calc, emprestados>>

\* A bulk delete whose message counts the notes of the list instead of the
\* rows removed.
ExcluirMassaContaLista(w, notas) ==
    /\ pc[w] = "idle"
    /\ req' = [req EXCEPT ![w] = Pedido("excluir_massa", "", "", SemData, "", notas)]
    /\ IF notas = {}
       THEN /\ Responder(w, "400_campos")
            /\ UNCHANGED <<agendamentos, corpo>>
       ELSE /\ PoolLivre
            /\ agendamentos' = DeleteNotas(agendamentos, notas)
            /\ corpo' = [corpo EXCEPT ![w] =
                            [rota |-> "excluir_massa",
                             rowCount |-> Cardinality(notas)]]
            /\ Responder(w, "200")
    /\ UNCHANGED <<agora, calc, emprestados>>

\* The list notas is an array in the request; the statement deletes by
\* membership, so the model keeps its set of elements. The message of the
\* answer carries result.rowCount.
ExcluirMassa(w, notas) ==
    /\ pc[w] = "idle"
    /\ req' = [req EXCEPT ![w] = Pedido("excluir_massa", "", "", SemData, "", notas)]
    /\ IF notas = {}
       THEN /\ Responder(w, "400_campos")
            /\ UNCHANGED <<agendamentos, corpo>>
       ELSE /\ PoolLivre
            /\ agendamentos' = DeleteNotas(agendamentos, notas)
            /\ corpo' = [corpo EXCEPT ![w] =
                            [rota |-> "excluir_massa",
                             rowCount |-> Cardinality(agendamentos
                                             \ DeleteNotas(agendamentos, notas))]]
            /\ Responder(w, "200")
    /\ UNCHANGED <<agora, calc, emprestados>>

----------------------------------------------------------------------------
(* The environment *)

\* The response is out; the handler slot takes the next request.
Finalizar(w) ==
    /\ pc[w] = "done"
    /\ pc' = [pc EXCEPT ![w] = "idle"]
    /\ req' = [req EXCEPT ![w] = SemReq]
    /\ resp' = [resp EXCEPT ![w] = ""]
    /\ corpo' = [corpo EXCEPT ![w] = SemCorpo]
    /\ UNCHANGED <<agendamentos, agora, calc, emprestados>>

\* Time passes.
Tique ==
    /\ DiaDe(agora + 1) <= MaxDia
    /\ agora' = agora + 1
    /\ UNCHANGED <<agendamentos, pc, req, resp, corpo, calc, emprestados>>

\* A call adicionarDiasUteis(dataInicial, dias) returns.
CalcularDiasUteis ==
    /\ ~calc.feito
    /\ calc' = [calc EXCEPT !.feito = TRUE,
                            !.data = adicionarDiasUteis(calc.dataInicial, calc.dias)]
    /\ UNCHANGED <<agendamentos, agora, pc, req, resp, corpo, emprestados>>

\* Time passes, to one of the given later instants.
PassarPara(instantes) ==
    /\ \E t \in instantes : t > agora /\ agora' = t
    /\ UNCHANGED <<agendamentos, pc, req, resp, corpo, calc, emprestados>>

\* Time passes, up to the end of day ate.
TiqueAte(ate) ==
    /\ DiaDe(agora + 1) <= ate
    /\ agora' = agora + 1
    /\ UNCHANGED <<agendamentos, pc, req, resp, corpo, calc, emprestados>>

----------------------------------------------------------------------------
(* Specifications *)

Notas == {"70900000001", "70900000002", "70900000003"}
Periodos == {"manha", "tarde"}

\* Friday 1970-01-02: at midnight, and later that day.
SextaZeroHora == Instante(1, 0)
Sexta == Instante(1, 1)

\* Requested dates, seen from that Friday: Wednesday the 7th and Thursday the
\* 8th are admissible; the others are a missing date, Monday the 5th (too
\* early), Saturday the 10th, Monday 2 February (beyond the horizon) and
\* Saturday 7 February (beyond the horizon, and a weekend).
Quarta == DataIso(6)
Quinta == DataIso(7)
Sabado == DataIso(9)
DatasRecusadas == {DataVazia, DataIso(4), Sabado, DataIso(32), DataIso(37)}

IniciarEm(instantes) ==
    /\ agendamentos = {}
    /\ agora \in instantes
    /\ pc = [w \in Workers |-> "idle"]
    /\ req = [w \in Workers |-> SemReq]
    /\ resp = [w \in Workers |-> ""]
    /\ corpo = [w \in Workers |-> SemCorpo]
    /\ calc = SemCalculo
    /\ emprestados = 0

\* The steps of handler w on the public routes: create requests drawn from
\* Ns, Ls, CDs, CPs and reschedule requests from Ns, RDs, RPs.
Publico(w, Ns, Ls, CDs, CPs, RDs, RPs) ==
    \/ \E n \in Ns, l \in Ls, d \in CDs, p \in CPs : CriarNota(w, n, l, d, p)
    \/ CriarVagas(w)
    \/ CriarInsert(w)
    \/ \E n \in Ns, d \in RDs, p \in RPs : ReagendarNota(w, n, d, p)
    \/ ReagendarVagas(w)
    \/ ReagendarUpdate(w)
    \/ Finalizar(w)

\* The back-office routes.
BackOffice(w, Ns) ==
    \/ \E n \in Ns : Concluir(w, n)
    \/ \E n \in Ns : Excluir(w, n)

Massa(w, Ns) == \E ns \in SUBSET Ns : ExcluirMassa(w, ns)

\* Two handlers in flight at once, interleaved at their awaits.
Init == IniciarEm({Sexta})
Next ==
    \/ \E w \in Workers :
          Publico(w, Notas, {"Criciuma"}, {Quarta, Sabado}, {"manha"}, {Quarta}, Periodos)
    \/ BackOffice(1, Notas)
Spec == Init /\ [][Next]_vars

\* Requests processed one at a time: a single handler.
InitSeq == IniciarEm({Sexta})
NextSeq ==
    \/ Publico(1, Notas, {"Criciuma", "Tubarao"},
               {Quarta} \cup DatasRecusadas, {"manha"},
               {Quinta} \cup DatasRecusadas, Periodos)
    \/ BackOffice(1, Notas)
    \/ Massa(1, Notas)
SpecSeq == InitSeq /\ [][NextSeq]_vars

\* One handler: bookings are made in two periods of Wednesday, moved,
\* completed, and deleted one by one or by lists of note numbers, some of
\* them not stored.
InitExcluir == IniciarEm({Sexta})
NextExcluir ==
    \/ Publico(1, Notas, {"Criciuma"}, {Quarta}, Periodos, {Quinta}, {"manha"})
    \/ BackOffice(1, Notas)
    \/ Massa(1, Notas)
SpecExcluir == InitExcluir /\ [][NextExcluir]_vars

\* One handler, the date field in every form a client can send (the timestamps
\* are of Saturday the 10th, Sunday the 11th and Monday 2 February), a note
\* number that is not 709 and 8 digits, and the clock running on from Friday.
InitDatas == IniciarEm({SextaZeroHora})
NextDatas ==
    \/ Publico(1, {"70900000001", "12345"}, {"Criciuma"},
               {Quarta, Sabado, DataIso(32), DataHora(9), DataHora(32), DataLixo,
                DataVazia}, {"manha"},
               {Quinta, Sabado, DataIso(32), DataHora(10), DataLixo, DataVazia},
               {"manha"})
    \/ BackOffice(1, {"70900000001"})
    \/ Tique
SpecDatas == InitDatas /\ [][NextDatas]_vars

\* One handler and the clock running from Friday to Monday the 5th: bookings
\* are made for Tuesday the 6th and Wednesday the 7th, moved to Tuesday,
\* Wednesday or Thursday, completed and looked up while their day comes near.
Terca == DataIso(5)
InitPrazo == IniciarEm({SextaZeroHora})
NextPrazo ==
    \/ Publico(1, {"70900000001", "70900000002"}, {"Criciuma"},
               {Terca, Quarta}, {"manha"}, {Terca, Quarta, Quinta}, {"manha"})
    \/ \E n \in {"70900000001", "70900000002"} : Consultar(1, n)
    \/ \E n \in {"70900000001", "70900000002"} : Concluir(1, n)
    \/ TiqueAte(MaxDiaPrazo)
SpecPrazo == InitPrazo /\ [][NextPrazo]_vars

\* One handler, bookings for Wednesday the 7th in three period texts (the
\* create handler takes any non-empty text as periodo), completed by the back
\* office, and the availability of two localities asked on Friday, on that
\* Wednesday and on the Thursday after it.
NotasDisp == Notas \cup {"70900000004"}
PeriodosDisp == {"manha", "tarde", "noite"}
InitDisp == IniciarEm({Sexta})
NextDisp ==
    \/ \E n \in NotasDisp, p \in PeriodosDisp : CriarNota(1, n, "Criciuma", Quarta, p)
    \/ CriarVagas(1)
    \/ CriarInsert(1)
    \/ Finalizar(1)
    \/ \E n \in NotasDisp : Concluir(1, n)
    \/ \E l \in {"Criciuma", "Tubarao"} : Disponibilidade(1, l)
    \/ PassarPara({Instante(6, 1), Instante(7, 0)})
SpecDisp == InitDisp /\ [][NextDisp]_vars

\* adicionarDiasUteis alone: a call with any instant of two weeks as its
\* first argument and 0 to MaxDias business days as its second.
InitDiasUteis ==
    /\ agendamentos = {}
    /\ agora = Sexta
    /\ pc = [w \in Workers |-> "idle"]
    /\ req = [w \in Workers |-> SemReq]
    /\ resp = [w \in Workers |-> ""]
    /\ corpo = [w \in Workers |-> SemCorpo]
    /\ emprestados = 0
    /\ \E t \in 0..Instante(MaxDiaInicial, 1), n \in 0..MaxDias :
          calc = [dataInicial |-> t, dias |-> n, feito |-> FALSE, data |-> 0]
NextDiasUteis == CalcularDiasUteis
SpecDiasUteis == InitDiasUteis /\ [][NextDiasUteis]_vars

----------------------------------------------------------------------------
(* Vocabulary of the properties *)

\* The weekday of calendar day dia: 0 = Sunday ... 6 = Saturday.
DiaDaSemana(dia) == (dia + 4) % 7
EhFimDeSemana(dia) == DiaDaSemana(dia) = 0 \/ DiaDaSemana(dia) = 6

\* The non-completed bookings of a slot.
NaoConcluidosEm(tabela, dia, periodo, localidade) ==
    Cardinality({a \in tabela : /\ a.data_atual = dia
                                /\ a.periodo_atual = periodo
                                /\ a.localidade = localidade
                                /\ a.status # "concluido"})

\* All the bookings of a slot.
TodosEm(tabela, dia, periodo, localidade) ==
    Cardinality({a \in tabela : /\ a.data_atual = dia
                                /\ a.periodo_atual = periodo
                                /\ a.localidade = localidade})

\* The slot a create or reschedule request asks for.
NaoConcluidosPedidos(w) ==
    NaoConcluidosEm(agendamentos, req[w].data.dia, req[w].periodo, req[w].localidade)

\* Handler w takes a create (reschedule) request in this step.
ChegaCriar(w) == pc[w] = "idle" /\ pc'[w] # "idle" /\ req'[w].op = "criar"
ChegaReagendar(w) == pc[w] = "idle" /\ pc'[w] # "idle" /\ req'[w].op = "reagendar"

\* Handler w has passed the slot query and stands before its write.
AntesDaEscrita(w) == pc[w] \in {"criar_insert", "reagendar_update"}

\* Handler w has answered a create or reschedule request with success.
Sucesso(w) ==
    /\ pc[w] = "done"
    /\ \/ req[w].op = "criar" /\ resp[w] = "201"
       \/ req[w].op = "reagendar" /\ resp[w] = "200"

----------------------------------------------------------------------------
(* C1 *)

\* C1: with requests processed one at a time, no slot (data_atual,
\* periodo_atual, localidade) ever holds more than 2 non-completed bookings.
C1_CapacidadePorVaga ==
    \A a \in agendamentos :
        NaoConcluidosEm(agendamentos, a.data_atual, a.periodo_atual, a.localidade) <= 2

\* A request for a slot that holds 2 non-completed bookings was turned down.
C1_VagaCheiaRecusada ==
    \E w \in Workers :
        /\ pc[w] = "done"
        /\ req[w].op \in {"criar", "reagendar"}
        /\ resp[w] = "409_vagas"
        /\ NaoConcluidosPedidos(w) = 2

----------------------------------------------------------------------------
(* C2 *)

\* C2: every handler that stands before its write, or has written and
\* answered with success, read a count below 2 for its slot: a slot passes its
\* capacity only through a write that follows another handler's write without
\* a new read, never through a lax test of the count.
C2_EscritaAposVagaLivre ==
    \A w \in Workers : (AntesDaEscrita(w) \/ Sucesso(w)) => req[w].vagas < 2

\* Two create requests have both read 1 booking in the slot and have both
\* inserted: the slot holds 3 bookings.
C2_CorridaDeCriacao ==
    /\ \A w \in Workers :
          /\ Sucesso(w)
          /\ req[w].op = "criar"
          /\ req[w].vagas = 1
          /\ req[w].data = req[1].data
          /\ req[w].periodo = req[1].periodo
          /\ req[w].localidade = req[1].localidade
    /\ TodosEm(agendamentos, req[1].data.dia, req[1].periodo, req[1].localidade) = 3

\* The same with two reschedule requests.
C2_CorridaDeReagendamento ==
    /\ \A w \in Workers :
          /\ Sucesso(w)
          /\ req[w].op = "reagendar"
          /\ req[w].vagas = 1
          /\ req[w].data = req[1].data
          /\ req[w].periodo = req[1].periodo
          /\ req[w].localidade = req[1].localidade
    /\ TodosEm(agendamentos, req[1].data.dia, req[1].periodo, req[1].localidade) = 3

----------------------------------------------------------------------------
(* C3 *)

\* C3: the slot query counts the non-completed bookings of the slot: a request
\* is turned down as slot-full only when the slot holds 2 or more of them, and
\* passes only when it holds 0 or 1.
C3_VagasContaNaoConcluidos ==
    \A w \in Workers :
        /\ (pc[w] = "done" /\ req[w].op \in {"criar", "reagendar"}
                /\ resp[w] = "409_vagas") => NaoConcluidosPedidos(w) >= 2
        /\ AntesDaEscrita(w) => NaoConcluidosPedidos(w) <= 1

----------------------------------------------------------------------------
(* C4 *)

\* The answers of the reschedule route that turn a request down before the
\* slot query.
RecusasDeReagendamento == {"400_campos", "400_dia_util", "400_antecedencia", "403"}

C4_Passo ==
    /\ \A w \in Workers : \A a \in agendamentos :
          (/\ ChegaReagendar(w)
           /\ a.numero_nota = req'[w].nota
           /\ a.quantidade_reagendamentos = 1)
          => /\ pc'[w] = "done"
             /\ resp'[w] \in RecusasDeReagendamento
             /\ agendamentos' = agendamentos
    /\ \A a \in agendamentos : \A b \in agendamentos' :
          a.numero_nota = b.numero_nota
          => /\ b.quantidade_reagendamentos >= a.quantidade_reagendamentos
             /\ (<<b.data_atual, b.periodo_atual>> # <<a.data_atual, a.periodo_atual>>
                    => /\ a.quantidade_reagendamentos = 0
                       /\ b.quantidade_reagendamentos = 1)

\* C4: with requests processed one at a time, a reschedule request on a
\* booking whose quantidade_reagendamentos is 1 is turned down whatever its
\* new date and period, and changes nothing; a booking's data_atual and
\* periodo_atual change only in a step that takes the count from 0 to 1, and
\* the count never goes down, so they change at most once.
C4_UmReagendamento == [][C4_Passo]_vars

\* A reschedule request with an admissible date was turned down with 403 on a
\* booking that is rescheduled and not completed.
C4_SegundoRecusado ==
    \E w \in Workers : \E a \in agendamentos :
        /\ pc[w] = "done"
        /\ req[w].op = "reagendar"
        /\ req[w].data = Quinta
        /\ resp[w] = "403"
        /\ a.numero_nota = req[w].nota
        /\ a.quantidade_reagendamentos = 1
        /\ a.status = "reagendado"

----------------------------------------------------------------------------
(* C5 *)

C5_PassoOriginal ==
    \A w \in Workers : \A a \in agendamentos :
        (/\ ChegaReagendar(w)
         /\ a.numero_nota = req'[w].nota
         /\ a.status = "concluido")
        => /\ pc'[w] = "done"
           /\ resp'[w] = "403"

\* C5 as stated: a reschedule request on a completed booking is answered with
\* the ineligible-booking answer (403) whatever its new date and period.
C5_ConcluidoSempre403 == [][C5_PassoOriginal]_vars

C5_Passo ==
    \A w \in Workers : \A a \in agendamentos :
        (/\ ChegaReagendar(w)
         /\ a.numero_nota = req'[w].nota
         /\ a.status = "concluido")
        => /\ pc'[w] = "done"
           /\ agendamentos' = agendamentos
           /\ resp'[w] \in RecusasDeReagendamento
           /\ resp'[w] = "400_campos"
                 <=> (req'[w].data = DataVazia \/ req'[w].periodo = "")
           /\ resp'[w] = "400_dia_util"
                 => (req'[w].data.fmt = "iso" /\ EhFimDeSemana(req'[w].data.dia))
           /\ resp'[w] = "400_antecedencia"
                 => (req'[w].data.fmt = "iso" /\ req'[w].data.dia <= DiaDe(agora) + 4)

\* C5 amended: a reschedule request on a completed booking is always turned
\* down and changes nothing, also when quantidade_reagendamentos is 0: with a
\* 400 when the new date or period is missing, a weekend day or too early, and
\* with 403 otherwise.
C5_ConcluidoRecusado == [][C5_Passo]_vars

\* A reschedule request with an admissible date was turned down with 403 on a
\* completed booking that was never rescheduled.
C5_ConcluidoRecusadoVisto ==
    \E w \in Workers : \E a \in agendamentos :
        /\ pc[w] = "done"
        /\ req[w].op = "reagendar"
        /\ req[w].data = Quinta
        /\ resp[w] = "403"
        /\ a.numero_nota = req[w].nota
        /\ a.quantidade_reagendamentos = 0
        /\ a.status = "concluido"

----------------------------------------------------------------------------
(* C6 *)

C6_Passo ==
    \A a \in agendamentos : \A b \in agendamentos' :
        (a.numero_nota = b.numero_nota /\ a.status = "concluido")
        => b.status = "concluido"

\* C6: a booking whose status is concluido keeps that status for as long as
\* it exists, under every interleaving of the handlers.
C6_ConcluidoTerminal == [][C6_Passo]_vars

----------------------------------------------------------------------------
(* C7 *)

C7_PassoCriar(w) ==
    (pc[w] = "criar_insert" /\ pc'[w] = "done" /\ resp'[w] = "201")
    => PorNota(agendamentos', req[w].nota) =
          {[numero_nota |-> req[w].nota,
            localidade |-> req[w].localidade,
            data_original |-> req[w].data.dia,
            periodo_original |-> req[w].periodo,
            data_atual |-> req[w].data.dia,
            periodo_atual |-> req[w].periodo,
            status |-> "agendado",
            quantidade_reagendamentos |-> 0,
            criado_em |-> agora]}

C7_PassoReagendar(w) ==
    (pc[w] = "reagendar_update" /\ pc'[w] = "done" /\ resp'[w] = "200")
    => /\ PorNota(agendamentos, req[w].nota) # {}
       /\ \A a \in PorNota(agendamentos, req[w].nota) :
             /\ a.status = "agendado"
             /\ a.quantidade_reagendamentos = 0
             /\ a.data_atual = a.data_original
             /\ a.periodo_atual = a.periodo_original
             /\ PorNota(agendamentos', req[w].nota) =
                   {[numero_nota |-> a.numero_nota,
                     localidade |-> a.localidade,
                     data_original |-> a.data_original,
                     periodo_original |-> a.periodo_original,
                     data_atual |-> req[w].data.dia,
                     periodo_atual |-> req[w].periodo,
                     status |-> "reagendado",
                     quantidade_reagendamentos |-> 1,
                     criado_em |-> a.criado_em]}

C7_Passo == \A w \in Workers : C7_PassoCriar(w) /\ C7_PassoReagendar(w)

\* C7: the step that answers a create with 201 leaves, for the note, exactly
\* one row with data_original = data_atual = D, periodo_original =
\* periodo_atual = P, status agendado and quantidade_reagendamentos 0; the step
\* that answers a reschedule to (D2, P2) with 200 finds that row and leaves it
\* with data_atual = D2, periodo_atual = P2, data_original and periodo_original
\* as they were, quantidade_reagendamentos 1 and status reagendado.
C7_CriarDepoisReagendar == [][C7_Passo]_vars

\* A booking created for Wednesday morning was rescheduled to Thursday
\* afternoon and the reschedule answered 200.
C7_Reagendado ==
    \E w \in Workers : \E a \in agendamentos :
        /\ pc[w] = "done"
        /\ req[w].op = "reagendar"
        /\ resp[w] = "200"
        /\ a.numero_nota = req[w].nota
        /\ a.data_original = 6 /\ a.periodo_original = "manha"
        /\ a.data_atual = 7 /\ a.periodo_atual = "tarde"
        /\ a.status = "reagendado"
        /\ a.quantidade_reagendamentos = 1

----------------------------------------------------------------------------
(* C8 *)

Unico == \A a \in agendamentos : \A b \in agendamentos :
            a.numero_nota = b.numero_nota => a = b

\* No other request is between its arrival and its answer.
UmDeCadaVez(w) == \A v \in Workers \ {w} : pc[v] \in {"idle", "done"}

C8_PassoOriginal ==
    \A w \in Workers :
        (/\ ChegaCriar(w)
         /\ UmDeCadaVez(w)
         /\ notaExistente(agendamentos, req'[w].nota))
        => /\ pc'[w] = "done"
           /\ resp'[w] = "409_nota"
           /\ agendamentos' = agendamentos

\* C8 as stated: no two rows ever have the same numero_nota, and with
\* requests processed one at a time every create whose note is already stored
\* is answered 409 and leaves the table unchanged.
C8_UnicoE409 == []Unico /\ [][C8_PassoOriginal]_vars

C8_Passo ==
    \A w \in Workers :
        (/\ ChegaCriar(w)
         /\ UmDeCadaVez(w)
         /\ notaExistente(agendamentos, req'[w].nota))
        => /\ pc'[w] = "done"
           /\ agendamentos' = agendamentos
           /\ resp'[w] \in {"400_campos", "400_horizonte", "400_dia_util",
                            "400_antecedencia", "409_nota"}
           /\ (/\ req'[w].data.fmt = "iso"
               /\ ~EhFimDeSemana(req'[w].data.dia)
               /\ req'[w].data.dia > DiaDe(agora) + 4
               /\ req'[w].data.dia <= DiaDe(agora) + DiasHorizonte)
              => resp'[w] = "409_nota"

\* C8 amended: no two rows ever have the same numero_nota, under every
\* interleaving; with requests processed one at a time a create whose note is
\* already stored is always turned down and leaves the table unchanged, with
\* 409 when its date passes the date rules and with the 400 of the failing
\* rule otherwise.
C8_UnicoERecusa == []Unico /\ [][C8_Passo]_vars

\* A create with an admissible date was answered 409 for a stored note.
C8_DuplicadaRecusada ==
    \E w \in Workers :
        /\ pc[w] = "done"
        /\ req[w].op = "criar"
        /\ req[w].data = Quarta
        /\ resp[w] = "409_nota"
        /\ notaExistente(agendamentos, req[w].nota)

----------------------------------------------------------------------------
(* C9 *)

\* The rules of a create request, stated on the requested day and today.
AlemDoHorizonte(dia) == dia > DiaDe(agora) + DiasHorizonte
MuitoCedo(dia) == Instante(dia, 0) < adicionarDiasUteis(agora, DiasUteisAntecedencia)

\* A create request arrives with every field present and a date in the
\* YYYY-MM-DD form.
ChegaCriarComData(w) ==
    /\ ChegaCriar(w)
    /\ req'[w].data.fmt = "iso"
    /\ req'[w].periodo # ""
    /\ req'[w].localidade # ""

C9_PassoOriginal ==
    \A w \in Workers :
        (ChegaCriarComData(w) /\ EhFimDeSemana(req'[w].data.dia))
        => (pc'[w] = "done" /\ resp'[w] = "400_dia_util")

\* C9 as stated: the weekend rule comes first, so a create for a Saturday or
\* Sunday is answered as non-business-day also when the day is more than 30
\* days ahead.
C9_FimDeSemanaPrimeiro == [][C9_PassoOriginal]_vars

C9_Passo ==
    \A w \in Workers :
        /\ ChegaCriarComData(w) =>
              LET dia == req'[w].data.dia
                  recusa == IF pc'[w] = "done" THEN resp'[w] ELSE "nenhuma"
              IN  /\ AlemDoHorizonte(dia) => recusa = "400_horizonte"
                  /\ (~AlemDoHorizonte(dia) /\ EhFimDeSemana(dia))
                        => recusa = "400_dia_util"
                  /\ (~AlemDoHorizonte(dia) /\ ~EhFimDeSemana(dia) /\ MuitoCedo(dia))
                        => recusa = "400_antecedencia"
                  /\ (~AlemDoHorizonte(dia) /\ ~EhFimDeSemana(dia) /\ ~MuitoCedo(dia))
                        => recusa \in {"409_nota", "nenhuma"}
        /\ (pc[w] = "criar_vagas" /\ pc'[w] = "done" /\ resp'[w] = "409_vagas")
              => /\ ~AlemDoHorizonte(req[w].data.dia)
                 /\ ~EhFimDeSemana(req[w].data.dia)
                 /\ ~MuitoCedo(req[w].data.dia)

\* C9 amended: the answer of a create request is that of the first failing
\* rule in the order horizon, weekend, lead time, slot full; a Saturday or
\* Sunday more than 30 days ahead is answered as horizon-exceeded.
C9_HorizontePrimeiro == [][C9_Passo]_vars

\* A create for a Saturday more than 30 days ahead was answered as
\* horizon-exceeded.
C9_SabadoDistante ==
    \E w \in Workers :
        /\ pc[w] = "done"
        /\ req[w].op = "criar"
        /\ req[w].data = DataIso(37)
        /\ EhFimDeSemana(37)
        /\ AlemDoHorizonte(37)
        /\ resp[w] = "400_horizonte"

----------------------------------------------------------------------------
(* C10 *)

\* C10: no stored booking has a data_atual or data_original that falls on a
\* Saturday or Sunday.
C10_SemFimDeSemana ==
    \A a \in agendamentos :
        ~EhFimDeSemana(a.data_atual) /\ ~EhFimDeSemana(a.data_original)

----------------------------------------------------------------------------
(* C11 *)

C11_Passo ==
    /\ \A w \in Workers :
          (/\ ChegaCriar(w)
           /\ req'[w].data.fmt \in {"iso", "datahora"}
           /\ req'[w].data.dia > DiaDe(agora) + DiasHorizonte)
          => (pc'[w] = "done" /\ resp'[w] = "400_horizonte")
    /\ \A b \in agendamentos' \ agendamentos :
          b.data_original <= DiaDe(agora) + DiasHorizonte

\* C11: a create request whose date lies more than 30 calendar days after
\* today is answered as horizon-exceeded, and a row is never inserted with a
\* data_original more than 30 days after the day of the insert.
C11_HorizonteNaCriacao == [][C11_Passo]_vars

----------------------------------------------------------------------------
(* C12 *)

C12_Passo ==
    /\ \A w \in Workers :
          (/\ ChegaReagendar(w)
           /\ notaExistente(agendamentos, req'[w].nota)
           /\ req'[w].periodo # ""
           /\ req'[w].data.fmt = "iso"
           /\ req'[w].data.dia > DiaDe(agora) + DiasHorizonte)
          => /\ pc'[w] = "done"
             /\ resp'[w] = "400_horizonte"
             /\ agendamentos' = agendamentos
    /\ \A a \in agendamentos : \A b \in agendamentos' :
          (a.numero_nota = b.numero_nota /\ b.data_atual # a.data_atual)
          => b.data_atual <= DiaDe(agora) + DiasHorizonte

\* C12: a reschedule request for a stored booking whose new date lies more
\* than 30 calendar days after today is answered as horizon-exceeded and
\* leaves the table unchanged; no booking is moved to such a date.
C12_HorizonteNoReagendamento == [][C12_Passo]_vars

----------------------------------------------------------------------------
(* C13 *)

\* Today, and today advanced by 2 business days, as calendar days.
Hoje == DiaDe(agora)
HojeMaisDiasUteis == DiaDe(adicionarDiasUteis(Instante(Hoje, 0), DiasUteisAntecedencia))

\* A create or reschedule request arrives with its fields present and a
\* Monday-to-Friday date in the YYYY-MM-DD form.
ChegaComDiaUtil(w) ==
    /\ ChegaCriar(w) \/ ChegaReagendar(w)
    /\ req'[w].periodo # ""
    /\ req'[w].data.fmt = "iso"
    /\ ~EhFimDeSemana(req'[w].data.dia)

\* Every earlier date is turned down for its lead time.
C13_Cedo ==
    \A w \in Workers :
        (ChegaComDiaUtil(w) /\ req'[w].data.dia < HojeMaisDiasUteis)
        => (pc'[w] = "done" /\ resp'[w] = "400_antecedencia")

\* The date equal to today advanced by 2 business days is not.
C13_NoLimite ==
    \A w \in Workers :
        (ChegaComDiaUtil(w) /\ req'[w].data.dia = HojeMaisDiasUteis)
        => ~(pc'[w] = "done" /\ resp'[w] = "400_antecedencia")

\* C13: the lead-time rule of create and reschedule turns down exactly the
\* dates earlier than today advanced by 2 business days: every earlier weekday
\* date is answered as insufficient lead time, and the date equal to it passes
\* the rule at whatever time of day the request arrives.
C13_Antecedencia == [][C13_Cedo /\ C13_NoLimite]_vars

\* The first half of C13 alone.
C13_SoCedo == [][C13_Cedo]_vars

----------------------------------------------------------------------------
(* C14 *)

\* A call with dias business days from a day of the week dia has returned.
Calculado(dia, dias) ==
    /\ calc.feito
    /\ calc.dias = dias
    /\ getUTCDay(calc.dataInicial) = dia

\* C14 as stated: 2 business days from a Saturday give the following
\* Wednesday, 4 calendar days on.
C14_SabadoDaQuarta ==
    Calculado(6, 2) => DiaDe(calc.data) = DiaDe(calc.dataInicial) + 4

\* C14 amended: 2 business days from a Saturday give the following Tuesday,
\* 3 calendar days on, at the time of day of the first argument.
C14_SabadoDaTerca ==
    Calculado(6, 2) => /\ calc.data = calc.dataInicial + Instante(3, 0)
                       /\ DiaDaSemana(DiaDe(calc.data)) = 2

\* A call with 2 business days from a Saturday afternoon has returned.
C14_SabadoCalculado == Calculado(6, 2) /\ calc.dataInicial % 2 = 1

----------------------------------------------------------------------------
(* C15 *)

\* The Monday-to-Friday days after day de, up to and including day ate.
DiasUteisEntre(de, ate) == {d \in (de + 1)..ate : ~EhFimDeSemana(d)}

\* C15: for dias >= 1 the call returns the instant, at the time of day of its
\* first argument, of the dias-th Monday-to-Friday day strictly after it: a
\* weekday; from a Friday with dias = 2 the following Tuesday; from a Saturday
\* the same day as from the Sunday after it.
C15_EnesimoDiaUtil ==
    (calc.feito /\ calc.dias >= 1) =>
        /\ ~EhFimDeSemana(DiaDe(calc.data))
        /\ calc.data > calc.dataInicial
        /\ calc.data % 2 = calc.dataInicial % 2
        /\ Cardinality(DiasUteisEntre(DiaDe(calc.dataInicial), DiaDe(calc.data))) = calc.dias
        /\ Calculado(5, 2) => DiaDe(calc.data) = DiaDe(calc.dataInicial) + 4
        /\ getUTCDay(calc.dataInicial) = 6 =>
              DiaDe(calc.data) =
                 DiaDe(adicionarDiasUteis(calc.dataInicial + Instante(1, 0), calc.dias))

\* A call with 3 business days from a Saturday has returned the Wednesday.
C15_SabadoTresDias ==
    /\ Calculado(6, 3)
    /\ DiaDe(calc.data) = DiaDe(calc.dataInicial) + 4

----------------------------------------------------------------------------
(* C16 *)

\* Handler w answers an availability request in this step.
RespondeDisponibilidade(w) ==
    pc[w] = "idle" /\ pc'[w] = "done" /\ req'[w].op = "disponibilidade"

\* Period p is listed under day d in that answer.
Listado(w, d, p) ==
    /\ d \in DOMAIN corpo'[w].turnosIndisponiveis
    /\ p \in corpo'[w].turnosIndisponiveis[d]

DiasDisp == 5..8

\* The first half: what is listed.
C16_Listados ==
    \A w \in Workers : RespondeDisponibilidade(w) =>
        \A d \in DiasDisp, p \in PeriodosDisp :
            Listado(w, d, p) <=>
                /\ d >= Hoje
                /\ NaoConcluidosEm(agendamentos, d, p, req'[w].localidade) >= 2

\* The second half: a day is reported fully booked exactly when morning and
\* afternoon are both listed under it.
C16_Lotados ==
    \A w \in Workers : RespondeDisponibilidade(w) =>
        \A d \in DiasDisp :
            d \in corpo'[w].diasLotados <=>
                (Listado(w, d, "manha") /\ Listado(w, d, "tarde"))

\* C16: the availability answer for a locality lists period P under date D
\* exactly when D >= today and at least 2 non-completed bookings of the
\* locality are on D in P, and reports D as fully booked exactly when morning
\* and afternoon are both listed under D.
C16_Disponibilidade == [][C16_Listados /\ C16_Lotados]_vars

\* The first half of C16 alone.
C16_SoListados == [][C16_Listados]_vars

----------------------------------------------------------------------------
(* C17 *)

\* The answers by which a create or reschedule request is turned down.
Rejeicoes == {"400_campos", "400_horizonte", "400_dia_util", "400_antecedencia",
              "409_nota", "404", "403", "409_vagas"}

\* Handler w takes a step of a create or reschedule request.
PassoDePedido(w) ==
    /\ pc'[w] # pc[w]
    /\ pc'[w] # "idle"
    /\ req'[w].op \in {"criar", "reagendar"}

C17_Passo ==
    \A w \in Workers : PassoDePedido(w) =>
        /\ (pc'[w] = "done" /\ resp'[w] \in Rejeicoes) => agendamentos' = agendamentos
        /\ agendamentos' # agendamentos =>
              /\ pc[w] \in {"criar_insert", "reagendar_update"}
              /\ pc'[w] = "done"
              /\ resp'[w] \in {"201", "200"}

\* C17: under every interleaving, the step in which a create or reschedule
\* request is turned down changes no row, and a step of such a request changes
\* the table only when it is its last one and answers 201 or 200: a request
\* makes at most one change, and none when it is turned down.
C17_SemEscritaParcial == [][C17_Passo]_vars

\* A create was turned down for a full slot while the table holds bookings.
C17_RecusaComTabelaCheia ==
    \E w \in Workers :
        /\ pc[w] = "done"
        /\ req[w].op = "criar"
        /\ resp[w] = "409_vagas"
        /\ Cardinality(agendamentos) >= 2
        /\ ~notaExistente(agendamentos, req[w].nota)

----------------------------------------------------------------------------
(* C18 *)

\* Handler w answers a booking query with the booking in this step.
RespondeConsulta(w) ==
    /\ pc[w] = "idle" /\ pc'[w] = "done"
    /\ req'[w].op = "consultar"
    /\ resp'[w] = "200"

\* The booking's current date is earlier than now advanced by 2 business days.
PrazoExpirado(ag) ==
    Instante(ag.data_atual, 0) < adicionarDiasUteis(agora, DiasUteisAntecedencia)

C18_Passo ==
    \A w \in Workers : RespondeConsulta(w) =>
        /\ PorNota(agendamentos, req'[w].nota) # {}
        /\ \A ag \in PorNota(agendamentos, req'[w].nota) :
              LET motivo == corpo'[w].motivoBloqueio
              IN  /\ corpo'[w].agendamento = ag
                  /\ ag.status = "concluido" => motivo = "concluido"
                  /\ (ag.status # "concluido" /\ ag.quantidade_reagendamentos > 0)
                        => motivo = "limite"
                  /\ motivo = "prazo" <=>
                        /\ ag.status # "concluido"
                        /\ ag.quantidade_reagendamentos = 0
                        /\ PrazoExpirado(ag)
                  /\ corpo'[w].podeReagendar <=> motivo = ""

\* C18: the block reason of the booking query follows the priority completed,
\* reschedule limit, lead time: a completed booking reports "completed"
\* whatever its count and date, a non-completed booking with a count above 0
\* reports the limit whatever its date, the lead-time reason is reported
\* exactly when neither applies and the date is too near, and podeReagendar is
\* true exactly when there is no reason.
C18_PrioridadeDoMotivo == [][C18_Passo]_vars

\* The query of a booking that is completed, was rescheduled and whose date
\* is too near has answered "completed".
C18_ConcluidoComTudo ==
    \E w \in Workers :
        /\ pc[w] = "done"
        /\ req[w].op = "consultar"
        /\ resp[w] = "200"
        /\ corpo[w].motivoBloqueio = "concluido"
        /\ corpo[w].agendamento.quantidade_reagendamentos = 1
        /\ PrazoExpirado(corpo[w].agendamento)
        /\ corpo[w].agendamento \in agendamentos

----------------------------------------------------------------------------
(* C19 *)

\* The candidate-date rules on a requested date: a Monday-to-Friday day, not
\* earlier than today advanced by 2 business days, not beyond the horizon.
Admissivel(data) ==
    /\ data.fmt = "iso"
    /\ ~EhFimDeSemana(data.dia)
    /\ data.dia >= HojeMaisDiasUteis
    /\ data.dia <= Hoje + DiasHorizonte

\* The booking of the note may be rescheduled: count 0 and not completed.
Elegivel(nota) ==
    \E ag \in PorNota(agendamentos, nota) :
        ag.quantidade_reagendamentos = 0 /\ ag.status # "concluido"

\* A reschedule request for an eligible booking is not turned down on
\* arrival, goes past the slot count when the slot has room, and ends with
\* answer 200 and the booking on the new date and period.
C19_Sucede(admissivel(_), ocupacao(_)) ==
    \A w \in Workers :
        /\ (/\ ChegaReagendar(w)
            /\ Elegivel(req'[w].nota)
            /\ req'[w].periodo # ""
            /\ admissivel(req'[w].data))
           => pc'[w] = "reagendar_vagas"
        /\ (/\ pc[w] = "reagendar_vagas" /\ pc'[w] # pc[w]
            /\ ocupacao(w) < LimiteVagas)
           => pc'[w] = "reagendar_update"
        /\ (pc[w] = "reagendar_update" /\ pc'[w] # pc[w])
           => /\ resp'[w] = "200"
              /\ \A b \in PorNota(agendamentos', req[w].nota) :
                    /\ b.data_atual = req[w].data.dia
                    /\ b.periodo_atual = req[w].periodo

\* C19: a reschedule request on a booking with count 0 and not completed, to
\* an admissible new date whose slot holds fewer than 2 non-completed
\* bookings, succeeds, whether or not the booking's current date is earlier
\* than today advanced by 2 business days.
C19_PrazoSoAvisa == [][C19_Sucede(Admissivel, NaoConcluidosPedidos)]_vars

\* The dates the handler lets through, and the count it takes.
PassaNoPrazo(data) ==
    data.fmt = "iso" /\ ~EhFimDeSemana(data.dia) /\ data.dia > HojeMaisDiasUteis
TodosPedidos(w) ==
    TodosEm(agendamentos, req[w].data.dia, req[w].periodo, req[w].localidade)

\* The part of C19 about the current date alone: the same with a new date
\* later than today advanced by 2 business days and a slot with fewer than 2
\* bookings of any status.
C19_SoAviso == [][C19_Sucede(PassaNoPrazo, TodosPedidos)]_vars

\* A booking whose date was too near on Monday afternoon, as its query says,
\* has been moved to Thursday.
C19_MovidoForaDoPrazo ==
    \E w \in Workers : \E ag \in agendamentos :
        /\ pc[w] = "done" /\ req[w].op = "reagendar" /\ resp[w] = "200"
        /\ agora = Instante(MaxDiaPrazo, 1)
        /\ ag.numero_nota = req[w].nota
        /\ ag.data_atual = 7
        /\ motivoBloqueio([ag EXCEPT !.data_atual = ag.data_original,
                                     !.quantidade_reagendamentos = 0,
                                     !.status = "agendado"], agora) = "prazo"

----------------------------------------------------------------------------
(* C20 *)

\* The note numbers of the requests that are 709 followed by 8 digits.
NoPadrao(nota) == nota \in NotasDisp

C20_Passo ==
    /\ \A w \in Workers :
          (ChegaCriar(w) /\ ~NoPadrao(req'[w].nota))
          => /\ pc'[w] = "done"
             /\ resp'[w] \in {"400_campos", "400_horizonte", "400_dia_util",
                              "400_antecedencia", "400_nota"}
             /\ agendamentos' = agendamentos
    /\ \A b \in agendamentos' : NoPadrao(b.numero_nota)

\* C20: a create request whose note number is not 709 followed by 8 digits is
\* answered 400 and stores nothing, and every stored note number has that
\* form.
C20_PadraoDaNota == [][C20_Passo]_vars

----------------------------------------------------------------------------
(* C21 *)

\* The fields of a booking that are set at creation.
MesmaOrigem(a, b) ==
    /\ b.localidade = a.localidade
    /\ b.data_original = a.data_original
    /\ b.periodo_original = a.periodo_original
    /\ b.criado_em = a.criado_em

\* A create handler stores the booking of note nota in this step.
InsereNota(nota) ==
    \E w \in Workers : /\ pc[w] = "criar_insert" /\ resp'[w] = "201"
                       /\ req[w].nota = nota

C21_Passo ==
    /\ \A a \in agendamentos : \A b \in agendamentos' :
          b.numero_nota = a.numero_nota => MesmaOrigem(a, b)
    /\ \A b \in agendamentos' :
          \/ \E a \in agendamentos : a.numero_nota = b.numero_nota
          \/ InsereNota(b.numero_nota)

\* C21: in every step a booking that stays in the table keeps its
\* numero_nota, localidade, data_original, periodo_original and criado_em,
\* whatever the step is (reschedule, completion, a rejected create, a delete
\* of another booking), and a note number enters the table only by the insert
\* of a create.
C21_CamposDaCriacao == [][C21_Passo]_vars

\* A booking made on Friday, moved to another day and completed, seen after
\* the clock has moved on.
C21_MovidoConcluidoDepois ==
    \E a \in agendamentos :
        /\ a.status = "concluido" /\ a.quantidade_reagendamentos = 1
        /\ a.data_atual # a.data_original
        /\ a.criado_em < agora

----------------------------------------------------------------------------
(* C22 *)

\* Handler w answers a reschedule request with success in this step.
RespondeReagendado(w) ==
    pc[w] = "reagendar_update" /\ pc'[w] = "done" /\ resp'[w] = "200"

C22_Passo ==
    /\ \A w \in Workers :
          RespondeReagendado(w)
          => \A a \in PorNota(agendamentos, req[w].nota) :
                a.quantidade_reagendamentos = 0
    /\ \A a \in agendamentos : \A b \in agendamentos' :
          (/\ b.numero_nota = a.numero_nota
           /\ b.criado_em = a.criado_em
           /\ \/ b.data_atual # a.data_atual
              \/ b.periodo_atual # a.periodo_atual)
          => a.quantidade_reagendamentos = 0

\* C22: of the reschedule requests for one booking that have all read it
\* before any of them writes, at most one is answered with success and the
\* booking's data_atual and periodo_atual are written at most once: a
\* reschedule answered 200 finds the booking still at count 0 when it
\* writes, and data_atual or periodo_atual change only from count 0.
C22_UmSoReagendamento == [][C22_Passo]_vars

----------------------------------------------------------------------------
(* C23 *)

\* Handler w answers a request of route op in this step.
Atende(w, op) == pc[w] = "idle" /\ pc'[w] = "done" /\ req'[w].op = op

\* The bookings this step takes out of the table.
Removidos == agendamentos \ agendamentos'

C23_Passo ==
    \A w \in Workers :
        /\ Atende(w, "excluir")
           => /\ agendamentos' \subseteq agendamentos
              /\ Removidos = PorNota(agendamentos, req'[w].nota)
              /\ resp'[w] = IF Removidos = {} THEN "404" ELSE "200"
        /\ (Atende(w, "excluir_massa") /\ resp'[w] = "200")
           => /\ agendamentos' \subseteq agendamentos
              /\ Removidos = {a \in agendamentos :
                                 a.numero_nota \in req'[w].notas}
              /\ corpo'[w].rowCount = Cardinality(Removidos)

\* C23: a single delete takes out of the table the booking of its note
\* number and nothing else, and answers 404 with the table unchanged when
\* there is none; a bulk delete takes out the stored bookings whose note
\* numbers are in its list and nothing else, and reports their number.
C23_ExclusaoExata == [][C23_Passo]_vars

\* A bulk delete of two note numbers, one of them not stored, has removed one
\* booking and left another in the table.
C23_MassaParcial ==
    \E w \in Workers :
        /\ pc[w] = "done" /\ req[w].op = "excluir_massa" /\ resp[w] = "200"
        /\ Cardinality(req[w].notas) = 2
        /\ corpo[w].rowCount = 1
        /\ agendamentos # {}

----------------------------------------------------------------------------
(* C24 *)

\* C24: every stored booking has quantidade_reagendamentos 0 or 1; with
\* status agendado the count is 0, with status reagendado it is 1, and with
\* count 0 data_atual and periodo_atual are data_original and
\* periodo_original; also when requests interleave.
C24_RegistroCoerente ==
    \A a \in agendamentos :
        /\ a.quantidade_reagendamentos \in {0, 1}
        /\ a.status = "agendado" => a.quantidade_reagendamentos = 0
        /\ a.status = "reagendado" => a.quantidade_reagendamentos = 1
        /\ a.quantidade_reagendamentos = 0
           => /\ a.data_atual = a.data_original
              /\ a.periodo_atual = a.periodo_original

\* Two reschedule requests for one booking have interleaved and both have
\* written it, while another booking is completed at count 0.
C24_DepoisDaCorrida ==
    /\ \A w \in Workers :
          /\ pc[w] = "done" /\ req[w].op = "reagendar" /\ resp[w] = "200"
          /\ req[w].nota = req[1].nota
    /\ req[1].periodo # req[2].periodo
    /\ \E a \in agendamentos :
          /\ a.numero_nota = req[1].nota
          /\ a.status = "reagendado"
          /\ a.periodo_atual # a.periodo_original
    /\ \E a \in agendamentos :
          a.status = "concluido" /\ a.quantidade_reagendamentos = 0

----------------------------------------------------------------------------
(* C25 *)

\* The handlers that stand between pool.connect() and their answer.
EmCurso ==
    {w \in Workers : pc[w] \in {"criar_vagas", "criar_insert",
                                "reagendar_vagas", "reagendar_update"}}

\* C25: the clients checked out of the pool are those of the create and
\* reschedule handlers that have not answered yet: each handler has released
\* its client when it answers, whatever the answer, so that with every
\* request completed no client is checked out.
C25_ClientesDevolvidos == emprestados = Cardinality(EmCurso)

====
